---- MODULE Spec2Model ----
(***************************************************************************)
(* voeventdb: the VOEvent table model (Voevent, Cite), the extraction of   *)
(* a row from a parsed VOEvent packet (Voevent.from_etree,                 *)
(* Cite.from_etree), the store that holds the rows under the declared      *)
(* column constraints, and the GET-only REST endpoint.                     *)
(*                                                                         *)
(* Text is a sequence of one-character strings, so that split and slicing  *)
(* are computed character by character.  An optional value is a sequence   *)
(* of length 0 (None) or 1.  An element's attributes are a function whose  *)
(* domain holds the attributes that are present, as lxml's attrib.         *)
(***************************************************************************)
EXTENDS Integers, Sequences, FiniteSets

\* ------------------------------------------------------------ bounds
\* longest identifier body (the characters after the optional 'ivo://')
MaxBody == 2
\* most EventIVORN entries in one Citations block
MaxEntries == 2
\* most voevent ids the sequence hands out in a run of the store
MaxRows == 2
\* most voevent ids the sequence hands out in a run over all the documents
MaxIngested == 1
\* last instant of the wall clock
MaxClock == 2

\* ------------------------------------------------------------ text
None == <<>>
Some(v) == <<v>>

Hash == "#"
IvoPrefix == <<"i", "v", "o", ":", "/", "/">>

\* s[n:] of Python: the characters after the first n (empty when Len(s) <= n)
SliceFrom(s, n) == IF Len(s) <= n THEN <<>> ELSE SubSeq(s, n + 1, Len(s))

\* str.split(sep) for a one-character separator: the list of the pieces
RECURSIVE SplitAcc(_, _, _, _)
SplitAcc(s, sep, cur, acc) ==
    IF s = <<>> THEN Append(acc, cur)
    ELSE IF Head(s) = sep THEN SplitAcc(Tail(s), sep, <<>>, Append(acc, cur))
    ELSE SplitAcc(Tail(s), sep, Append(cur, Head(s)), acc)

Split(s, sep) == SplitAcc(s, sep, <<>>, <<>>)

\* sequences over S of length at most n
SeqsUpTo(S, n) == UNION {[1..k -> S] : k \in 0..n}

\* ------------------------------------------------------------ schema
\* vp.definitions.roles, the members of roles_enum
Roles == {"observation", "prediction", "utility", "test"}
\* vp.definitions.cite_types, the members of cite_types_enum
CiteTypes == {"followup", "retraction", "supersedes"}

\* ------------------------------------------------------------ documents
\* A parsed packet (the lxml.objectify tree voeventparse.load returns):
\*   attrib    the root's attributes that are present
\*   Who       Date and AuthorIVORN, each None or Some(text)
\*   Citations None, or Some of a block with an optional Description and the
\*             EventIVORN entries in document order, each with its text (empty
\*             when the element has none) and its attributes
GoodDate == "2020-01-01T12:00:00Z"
BadDate == "yesterday"

IvornChars == {"a", Hash}
IvornBodies == SeqsUpTo(IvornChars, MaxBody)
\* identifiers with and without the 'ivo://' prefix, with and without a '#'
Ivorns == IvornBodies \cup {IvoPrefix \o b : b \in IvornBodies}

\* swift_bat_grb_655721 and swift_xrt_grb_655721 of the test resources: the
\* second cites the first
BatIvorn == IvoPrefix \o <<"a", Hash>>
XrtIvorn == IvoPrefix \o <<"x", Hash>>
\* an identifier no document of the universe carries
UnseenIvorn == IvoPrefix \o <<"z", Hash>>

Entry(text, attrib) == [text |-> text, attrib |-> attrib]
NoAttrib == [k \in {} |-> ""]
EntryKinds ==
    { Entry(<<>>, [cite |-> "followup"]),
      Entry(BatIvorn, [cite |-> "followup"]),
      Entry(UnseenIvorn, [cite |-> "retraction"]),
      Entry(UnseenIvorn, [cite |-> "citation"]) }
\* entries without the cite attribute
BareEntries == {Entry(<<>>, NoAttrib), Entry(BatIvorn, NoAttrib)}

Block(desc, entries) == [Description |-> desc, EventIVORN |-> entries]

Doc(attrib, date, author, citations) ==
    [attrib |-> attrib,
     Who |-> [Date |-> date, AuthorIVORN |-> author],
     Citations |-> citations]

Attrib(ivorn, role) == [ivorn |-> ivorn, role |-> role, version |-> "2.0"]

\* documents that differ in the identifier
IvornDocs ==
    {Doc(Attrib(i, "observation"), None, None, None) : i \in Ivorns}
    \cup {Doc([role |-> "observation", version |-> "2.0"], None, None, None)}
\* documents that differ in role and version
RoleDocs ==
    {Doc(Attrib(BatIvorn, r), None, None, None) : r \in Roles \cup {"alert"}}
    \cup {Doc([ivorn |-> BatIvorn, version |-> "2.0"], None, None, None),
          Doc([ivorn |-> BatIvorn, role |-> "test"], None, None, None)}
\* documents that differ in the Who block
WhoDocs ==
    {Doc(Attrib(BatIvorn, "utility"), d, a, None) :
        d \in {None, Some(GoodDate), Some(BadDate)},
        a \in {None, Some(IvoPrefix \o <<"a">>)}}
\* documents that differ in the Citations block
CiteDocs ==
    {Doc(Attrib(XrtIvorn, "observation"), None, None,
         Some(Block(Some("followup of the BAT trigger"), es))) :
        es \in SeqsUpTo(EntryKinds, MaxEntries)}
    \cup {Doc(Attrib(XrtIvorn, "observation"), None, None,
              Some(Block(None, <<e>>))) : e \in EntryKinds \cup BareEntries}

Documents == IvornDocs \cup RoleDocs \cup WhoDocs \cup CiteDocs

\* ------------------------------------------------------------ extraction
\* the outcome of a call: a value, or the exception it raised
Return(v) == [ok |-> TRUE, err |-> "", value |-> v]
Raise(e) == [ok |-> FALSE, err |-> e, value |-> <<>>]

\* pytz.UTC.localize(t): a timezone-aware timestamp
Localize(t) == [t |-> t, tz |-> "UTC"]

\* iso8601.parse_date
parse_date(text) ==
    IF text = GoodDate
    THEN Return([date |-> <<2020, 1, 1>>, time |-> <<12, 0, 0>>, tz |-> "UTC"])
    ELSE Raise("ParseError")

\* _grab_xpath(root, xpath): the first element at xpath if present, else None
\* (elements is the optional element's text)
grab_xpath(elements) == IF elements # None THEN Some(elements[1]) ELSE None

\* a Cite row before it is flushed: no id, no owner
NewCite(ref_ivorn, cite_type, description) ==
    [id |-> 0, voevent_id |-> None, ref_ivorn |-> ref_ivorn,
     cite_type |-> cite_type, description |-> description]

\* the loop without the test of entry.text
RECURSIVE CiteLoopKeepEmpty(_, _, _, _, _)
CiteLoopKeepEmpty(root, entries, description_text, cite_list, info) ==
    IF entries = <<>> THEN Return([cites |-> cite_list, info |-> info])
    ELSE LET entry == Head(entries) IN
         IF "cite" \in DOMAIN entry.attrib
         THEN CiteLoopKeepEmpty(root, Tail(entries), description_text,
                                Append(cite_list,
                                       NewCite(entry.text, entry.attrib.cite,
                                               description_text)),
                                info)
         ELSE Raise("KeyError")

\* the loop of Cite.from_etree over root.Citations.EventIVORN; info counts
\* the 'Ignoring empty citation in <ivorn>' log entries, whose message reads
\* root.attrib['ivorn'] and so raises KeyError for a root without it
RECURSIVE CiteLoop(_, _, _, _, _)
CiteLoop(root, entries, description_text, cite_list, info) ==
    IF entries = <<>> THEN Return([cites |-> cite_list, info |-> info])
    ELSE LET entry == Head(entries) IN
         IF entry.text # <<>>
         THEN IF "cite" \in DOMAIN entry.attrib
              THEN CiteLoop(root, Tail(entries), description_text,
                            Append(cite_list,
                                   NewCite(entry.text, entry.attrib.cite,
                                           description_text)),
                            info)
              ELSE Raise("KeyError")
         ELSE IF "ivorn" \in DOMAIN root.attrib
              THEN CiteLoop(root, Tail(entries), description_text, cite_list,
                            info + 1)
              ELSE Raise("KeyError")

\* Cite.from_etree(root)
Cite_from_etree(root) ==
    LET citations == IF root.Citations = None THEN <<>>
                     ELSE root.Citations[1].EventIVORN
    IN  IF citations # <<>>
        THEN LET description == root.Citations[1].Description
                 description_text == IF description # None THEN description
                                     ELSE None
             IN  CiteLoop(root, citations, description_text, <<>>, 0)
        ELSE Return([cites |-> <<>>, info |-> 0])

\* the stream taken without the split: ivorn[6:]
StreamNoSplit(ivorn) == SliceFrom(ivorn, 6)
\* the stream taken with a prefix of 5 characters: ivorn.split('#')[0][5:]
StreamShortPrefix(ivorn) == SliceFrom(Split(ivorn, Hash)[1], 5)
\* stream = ivorn.split('#')[0][6:]
StreamOf(ivorn) == SliceFrom(Split(ivorn, Hash)[1], 6)

\* vp.dumps(root): the serialised packet, kept as the tree it serialises
dumps(root) == [xml |-> root]

\* Voevent.from_etree(root, received): the row, or the exception raised on the
\* way, in the order the statements run
from_etree(root, received) ==
    IF "ivorn" \notin DOMAIN root.attrib THEN Raise("KeyError")
    ELSE IF "role" \notin DOMAIN root.attrib THEN Raise("KeyError")
    ELSE IF "version" \notin DOMAIN root.attrib THEN Raise("KeyError")
    ELSE LET ivorn == root.attrib.ivorn
             date == grab_xpath(root.Who.Date)
             author_datetime == IF date = None THEN Return(None)
                                ELSE parse_date(date[1])
             cites == Cite_from_etree(root)
         IN  IF ~author_datetime.ok THEN Raise(author_datetime.err)
             ELSE IF ~cites.ok THEN Raise(cites.err)
             ELSE Return([id |-> 0,
                          ivorn |-> Some(ivorn),
                          role |-> Some(root.attrib.role),
                          version |-> Some(root.attrib.version),
                          stream |-> Some(StreamOf(ivorn)),
                          xml |-> Some(dumps(root)),
                          received |-> received,
                          author_datetime |->
                              IF date = None THEN None
                              ELSE Some(author_datetime.value),
                          author_ivorn |-> grab_xpath(root.Who.AuthorIVORN),
                          cites |-> cites.value.cites])

\* ------------------------------------------------------------ state
VARIABLES
    clock,             \* datetime.utcnow()
    received_default,  \* the default of from_etree's received parameter
    voevent,           \* the committed rows of table voevent
    cite,              \* the committed rows of table cite
    voevent_id_seq,    \* the next voevent.id
    cite_id_seq,       \* the next cite.id
    session,           \* per ingestion process: its call and its transaction
    response           \* the REST API's last response

vars == <<clock, received_default, voevent, cite, voevent_id_seq, cite_id_seq,
          session, response>>

Procs == {1, 2}

\* ------------------------------------------------------------ constraints
\* the columns of table voevent (a Voevent row without its relationship)
Columns(row) ==
    [id |-> row.id, received |-> row.received, ivorn |-> row.ivorn,
     stream |-> row.stream, role |-> row.role, version |-> row.version,
     author_ivorn |-> row.author_ivorn,
     author_datetime |-> row.author_datetime, xml |-> row.xml]

\* received: nullable=False
ReceivedOk(row) == row.received # None
\* ivorn: nullable=False
IvornOk(row) == row.ivorn # None
\* the column declared without unique=True
IvornNotUnique(rows, row) == TRUE
\* ivorn: unique=True, against the rows a table holds
IvornUnique(rows, row) == \A r \in rows : r.ivorn # row.ivorn
\* the column declared as a plain String
RoleAny(row) == TRUE
\* role: Enum(observation, prediction, utility, test), nullable
RoleOk(row) == row.role = None \/ row.role[1] \in Roles
\* the column declared as a foreign key to voevent.ivorn
RefIvornStored(c) ==
    c.ref_ivorn # <<>> /\ \E r \in voevent : r.ivorn = Some(c.ref_ivorn)
\* ref_ivorn: nullable=False
RefIvornOk(c) == c.ref_ivorn # <<>>
\* cite_type: Enum(followup, retraction, supersedes), nullable=False
CiteTypeOk(c) == c.cite_type \in CiteTypes
\* voevent_id: ForeignKey(Voevent.id), nullable
VoeventIdOk(rows, c) ==
    c.voevent_id = None \/ \E r \in rows : r.id = c.voevent_id[1]

\* the relationship declared without the delete cascade: the rows stay, with
\* their voevent_id set to NULL
CascadeNullify(cites, id) ==
    {IF c.voevent_id = Some(id) THEN [c EXCEPT !.voevent_id = None] ELSE c :
        c \in cites}
\* cites: relationship(cascade="all, delete, delete-orphan"): what deleting
\* the voevent with this id leaves of table cite
CascadeDelete(cites, id) == {c \in cites : c.voevent_id # Some(id)}

\* the relationship declared without the save-update cascade
CascadeNoSave(row) == <<>>
\* cites: relationship(cascade="all ..."): the Cite rows that are saved with
\* a Voevent row added to a session
CascadeSave(row) == row.cites

\* ------------------------------------------------------------ sessions
\* what a call reports: the operation, the error ("" for none), the id
Out(op, err, id) == [op |-> op, err |-> err, id |-> id]

\* the received argument of a call: left out, or the caller's own reading of
\* the clock
NotGiven == "default"
Given == "utcnow"

\* a process whose call has ended, with what it reports to its caller
Done(root, arg, out) ==
    [pc |-> "done", root |-> root, arg |-> arg, row |-> None,
     new_event |-> None, new_cites |-> <<>>, todo |-> <<>>, out |-> out]

\* a process between calls
Idle == [Done(None, NotGiven, Out("none", "", 0)) EXCEPT !.pc = "idle"]

Init ==
    /\ clock = 0
    /\ received_default = Some(Localize(0))
    /\ voevent = {}
    /\ cite = {}
    /\ voevent_id_seq = 1
    /\ cite_id_seq = 1
    /\ session = [p \in Procs |-> Idle]
    /\ response = [status |-> 0, objects |-> {}]

\* time passes
Tick ==
    /\ clock < MaxClock
    /\ clock' = clock + 1
    /\ UNCHANGED <<received_default, voevent, cite, voevent_id_seq,
                   cite_id_seq, session, response>>

\* row = Voevent.from_etree(root[, received]); session.add(row)
Extract(p, root, arg) ==
    /\ session[p].pc = "idle"
    /\ LET received == IF arg = NotGiven THEN received_default
                       ELSE Some(Localize(clock))
           res == from_etree(root, received)
       IN  session' = [session EXCEPT ![p] =
               IF res.ok
               THEN [pc |-> "pending", root |-> Some(root), arg |-> arg,
                     row |-> Some(res.value), new_event |-> None,
                     new_cites |-> <<>>, todo |-> <<>>,
                     out |-> Out("extract", "", 0)]
               ELSE Done(Some(root), arg, Out("extract", res.err, 0))]
    /\ UNCHANGED <<clock, received_default, voevent, cite, voevent_id_seq,
                   cite_id_seq, response>>

\* the rows other transactions have written and not yet committed
Uncommitted(p) ==
    {session[q].new_event[1] : q \in {r \in Procs \ {p} :
                                        session[r].new_event # None}}

\* the transaction ends in a rollback: nothing of it is kept
Rollback(p, err) ==
    session' = [session EXCEPT ![p] = Done(@.root, @.arg, Out("insert", err, 0))]

\* flush, first statement: INSERT INTO voevent
FlushEvent(p, limit) ==
    /\ session[p].pc = "pending"
    /\ LET row == session[p].row[1] IN
       IF ~(ReceivedOk(row) /\ IvornOk(row) /\ RoleOk(row))
       THEN /\ Rollback(p, "ConstraintViolation")
            /\ UNCHANGED voevent_id_seq
       ELSE IF ~IvornUnique(voevent, row)
       THEN /\ Rollback(p, "DuplicateIdentifier")
            /\ UNCHANGED voevent_id_seq
       ELSE \* a writer of the same key that has not committed is waited for
            /\ IvornUnique(Uncommitted(p), row)
            /\ voevent_id_seq <= limit
            /\ session' = [session EXCEPT ![p] =
                   [@ EXCEPT !.pc = "flushing",
                             !.new_event =
                                 Some([Columns(row) EXCEPT
                                          !.id = voevent_id_seq]),
                             !.todo = CascadeSave(row)]]
            /\ voevent_id_seq' = voevent_id_seq + 1
    /\ UNCHANGED <<clock, received_default, voevent, cite, cite_id_seq,
                   response>>

\* flush, the statements that follow: INSERT INTO cite, one row each
FlushCite(p) ==
    /\ session[p].pc = "flushing"
    /\ session[p].todo # <<>>
    /\ LET c == [Head(session[p].todo) EXCEPT
                    !.id = cite_id_seq,
                    !.voevent_id = Some(session[p].new_event[1].id)]
       IN  IF RefIvornOk(c) /\ CiteTypeOk(c)
              /\ VoeventIdOk(voevent \cup {session[p].new_event[1]}, c)
           THEN /\ session' = [session EXCEPT ![p] =
                       [@ EXCEPT !.new_cites = Append(@, c),
                                 !.todo = Tail(@)]]
                /\ cite_id_seq' = cite_id_seq + 1
           ELSE /\ Rollback(p, "ConstraintViolation")
                /\ UNCHANGED cite_id_seq
    /\ UNCHANGED <<clock, received_default, voevent, cite, voevent_id_seq,
                   response>>

\* session.commit(): the transaction's rows become visible together
Commit(p) ==
    /\ session[p].pc = "flushing"
    /\ session[p].todo = <<>>
    /\ voevent' = voevent \cup {session[p].new_event[1]}
    /\ cite' = cite \cup {session[p].new_cites[i] :
                             i \in 1..Len(session[p].new_cites)}
    /\ session' = [session EXCEPT ![p] =
           Done(@.root, @.arg, Out("insert", "", @.new_event[1].id))]
    /\ UNCHANGED <<clock, received_default, voevent_id_seq, cite_id_seq,
                   response>>

\* the call returns to the ingestion driver, which goes on to the next packet
Finish(p) ==
    /\ session[p].pc = "done"
    /\ session' = [session EXCEPT ![p] = Idle]
    /\ UNCHANGED <<clock, received_default, voevent, cite, voevent_id_seq,
                   cite_id_seq, response>>

\* session.delete(row); session.commit()
Delete(id) ==
    /\ \E r \in voevent : r.id = id
    /\ voevent' = {r \in voevent : r.id # id}
    /\ cite' = CascadeDelete(cite, id)
    /\ UNCHANGED <<clock, received_default, voevent_id_seq, cite_id_seq,
                   session, response>>

\* ------------------------------------------------------------ REST API
\* the methods a client may send to /api/v0/voevent/<id>
HttpMethods == {"GET", "PATCH", "DELETE"}

\* the endpoint created with every method
ApiMethodsAll == HttpMethods
\* manager.create_api(Voevent, url_prefix=url_prefix, methods=['GET'])
ApiMethods == {"GET"}

\* a request for the instance with this id; a method the endpoint was not
\* created with is answered 405 before any handler runs
ApiRequest(method, id) ==
    LET found == {r \in voevent : r.id = id} IN
    IF method \notin ApiMethods
    THEN /\ response' = [status |-> 405, objects |-> {}]
         /\ UNCHANGED <<voevent, cite>>
    ELSE IF found = {}
    THEN /\ response' = [status |-> 404, objects |-> {}]
         /\ UNCHANGED <<voevent, cite>>
    ELSE IF method = "GET"
    THEN /\ response' = [status |-> 200, objects |-> found]
         /\ UNCHANGED <<voevent, cite>>
    ELSE IF method = "DELETE"
    THEN /\ response' = [status |-> 204, objects |-> {}]
         /\ voevent' = voevent \ found
         /\ cite' = CascadeDelete(cite, id)
    ELSE /\ response' = [status |-> 200, objects |-> {}]
         /\ voevent' = (voevent \ found)
                       \cup {[r EXCEPT !.role = Some("test")] : r \in found}
         /\ UNCHANGED cite

Api(method, id) ==
    /\ ApiRequest(method, id)
    /\ UNCHANGED <<clock, received_default, voevent_id_seq, cite_id_seq,
                   session>>

\* ------------------------------------------------------------ ingestion
\* one ingestion process, every document of the universe, received left out
Next ==
    \/ \E root \in Documents : Extract(1, root, NotGiven)
    \/ FlushEvent(1, MaxIngested)
    \/ FlushCite(1)
    \/ Commit(1)
    \/ Finish(1)

Spec == Init /\ [][Next]_vars

\* ------------------------------------------------------------ the store
\* the packets of the test resources: the BAT trigger, its retransmission
\* with another role, the XRT position citing it, an XRT packet whose second
\* citation the store refuses, and one citing an event that never arrives
Bat == Doc(Attrib(BatIvorn, "observation"), None, None, None)
BatAgain == Doc(Attrib(BatIvorn, "test"), None, None, None)
Xrt == Doc(Attrib(XrtIvorn, "observation"), None, None,
           Some(Block(None, <<Entry(BatIvorn, [cite |-> "followup"])>>)))
XrtRefused == Doc(Attrib(XrtIvorn, "observation"), None, None,
                  Some(Block(None, <<Entry(BatIvorn, [cite |-> "followup"]),
                                     Entry(UnseenIvorn, [cite |-> "citation"])>>)))
XrtLone == Doc(Attrib(XrtIvorn, "observation"), None, None,
               Some(Block(None, <<Entry(<<>>, [cite |-> "followup"]),
                                  Entry(UnseenIvorn, [cite |-> "retraction"])>>)))
StoreDocs == {Bat, BatAgain, Xrt, XrtRefused, XrtLone}

\* concurrent ingestion processes, deletion and API requests, as time passes
NextStore ==
    \/ \E p \in Procs, root \in StoreDocs : Extract(p, root, NotGiven)
    \/ \E p \in Procs : FlushEvent(p, MaxRows)
    \/ \E p \in Procs : FlushCite(p)
    \/ \E p \in Procs : Commit(p)
    \/ \E p \in Procs : Finish(p)
    \/ \E id \in 1..MaxRows : Delete(id)
    \/ \E method \in HttpMethods, id \in 1..MaxRows : Api(method, id)

SpecStore == Init /\ [][NextStore]_vars

\* ------------------------------------------------------------ the clock
\* one ingestion process as time passes, the received argument given or not
NextClock ==
    \/ Tick
    \/ \E root \in {Bat, Xrt}, arg \in {NotGiven, Given} :
           Extract(1, root, arg)
    \/ FlushEvent(1, MaxRows)
    \/ FlushCite(1)
    \/ Commit(1)
    \/ Finish(1)

SpecClock == Init /\ [][NextClock]_vars

\* ------------------------------------------------------------ properties
\* the packet a stored row was made from
PacketOf(r) == r.xml[1].xml

\* the committed Cite rows of the voevent with this id
CitesOf(cites, id) == {c \in cites : c.voevent_id = Some(id)}

\* a finite set of rows as the sequence ordered by id
ById(rows) ==
    CHOOSE s \in [1..Cardinality(rows) -> rows] :
        \A i, j \in 1..Cardinality(rows) : i < j => s[i].id < s[j].id

\* the EventIVORN entries of a packet that have text, in document order
EntriesWithText(root) ==
    IF root.Citations = None THEN <<>>
    ELSE SelectSeq(root.Citations[1].EventIVORN, LAMBDA e : e.text # <<>>)

\* these Cite rows are the citations of this packet, one per entry with text
CitesMatch(rows, root) ==
    LET es == EntriesWithText(root) IN
    /\ Cardinality(rows) = Len(es)
    /\ \A i \in 1..Len(es) :
           /\ ById(rows)[i].ref_ivorn = es[i].text
           /\ ById(rows)[i].cite_type = es[i].attrib.cite

\* process p ends a call in this step
Ends(p) == session[p].pc # "done" /\ session'[p].pc = "done"

\* an insert attempt that ends succeeds only for an identifier the store does
\* not hold, and fails with DuplicateIdentifier, changing nothing, for one it
\* holds
C1_StepOk ==
    \A p \in Procs :
        (Ends(p) /\ session'[p].out.op = "insert") =>
            LET ivorn == Some(session[p].root[1].attrib.ivorn)
                held == \E r \in voevent : r.ivorn = ivorn
            IN  /\ held => /\ session'[p].out.err = "DuplicateIdentifier"
                           /\ voevent' = voevent /\ cite' = cite
                /\ session'[p].out.err = "" => ~held
                /\ session'[p].out.err = "DuplicateIdentifier" => held

\* C1: in every reachable state the store holds at most one Event Record per
\* identifier, and of the insert attempts with one identifier, in any
\* interleaving, only one for which the store does not hold the identifier
\* succeeds: every attempt for a stored identifier fails with
\* DuplicateIdentifier and changes nothing (no overwrite, no second row)
C1_UniqueIdentifier ==
    /\ [](\A r1, r2 \in voevent : r1.ivorn = r2.ivorn => r1 = r2)
    /\ [][C1_StepOk]_vars

\* two attempts with one identifier have ended, one stored and one refused,
\* and the stored row is the first packet's, not the refused one's
C1_Witness ==
    /\ session[1].pc = "done" /\ session[1].root = Some(Bat)
    /\ session[1].out.op = "insert" /\ session[1].out.err = ""
    /\ session[2].pc = "done" /\ session[2].root = Some(BatAgain)
    /\ session[2].out.err = "DuplicateIdentifier"
    /\ \E r \in voevent : r.id = session[1].out.id /\ PacketOf(r) = Bat

\* a visible Event Record has all of its Citation Records and a visible
\* Citation Record has its Event Record
C2_Whole ==
    /\ \A r \in voevent : CitesMatch(CitesOf(cite, r.id), PacketOf(r))
    /\ \A c \in cite : \E r \in voevent : c.voevent_id = Some(r.id)
\* process p commits its transaction in this step
Commits(p) ==
    /\ session[p].pc = "flushing" /\ session'[p].pc = "done"
    /\ session'[p].out.err = ""
\* but for its commit, no step of an insert changes the visible store: not
\* the writes of its transaction, and not the step at which it fails
C2_StepOk ==
    \A p \in Procs :
        (session'[p] # session[p] /\ ~Commits(p)) =>
            voevent' = voevent /\ cite' = cite

\* C2: in every visible state the store holds an Event Record together with
\* all of its Citation Records or none of them, and an insert that fails, at
\* the event or at one of its citations, leaves the visible store as it was
C2_Atomic == []C2_Whole /\ [][C2_StepOk]_vars

\* an insert was refused at its second citation, after its event and its
\* first citation had been written, while another event is stored
C2_Witness ==
    \E p \in Procs :
        /\ session[p].pc = "done" /\ session[p].root = Some(XrtRefused)
        /\ session[p].out.op = "insert"
        /\ session[p].out.err = "ConstraintViolation"
        /\ voevent # {}
        /\ cite_id_seq > 1

\* C5: every stored Citation Record has an owner that is set and is stored,
\* and exactly one; a deleted Event Record leaves no Citation Record behind
C5_NoOrphans ==
    \A c \in cite :
        /\ c.voevent_id # None
        /\ Cardinality({r \in voevent : r.id = c.voevent_id[1]}) = 1

\* the citing packet was stored with its citation and then deleted, and its
\* citation went with it
C5_Witness ==
    \E p \in Procs :
        /\ session[p].pc = "done" /\ session[p].root = Some(Xrt)
        /\ session[p].out.op = "insert" /\ session[p].out.err = ""
        /\ \A r \in voevent : r.id # session[p].out.id
        /\ cite = {}
        /\ voevent # {}

\* every entry of the packet that has text has a cite attribute of the enum
CitableEntries(root) ==
    \A i \in 1..Len(EntriesWithText(root)) :
        /\ "cite" \in DOMAIN EntriesWithText(root)[i].attrib
        /\ EntriesWithText(root)[i].attrib.cite \in CiteTypes

\* the identifiers the stored rows carry
StoredIvorns == {r.ivorn[1] : r \in voevent}

\* an insert whose citations are well-formed is refused for a stored
\* identifier only, and a stored citation stays while its owner is stored
C8_StepOk ==
    /\ \A p \in Procs :
           (Ends(p) /\ session'[p].out.op = "insert"
                    /\ CitableEntries(session[p].root[1])) =>
               session'[p].out.err \in {"", "DuplicateIdentifier"}
    /\ \A c \in cite :
           (\E r \in voevent' : c.voevent_id = Some(r.id)) => c \in cite'

\* C8: an insert is never refused because an identifier it cites is not
\* stored, whether the cited event comes before, after or never; a stored
\* citation stays as it is while its owner is stored, also when the event it
\* cites is inserted
C8_AnyOrder == [][C8_StepOk]_vars

\* the citing event is stored with its citation of an identifier that was
\* not stored when it was inserted: the cited event has the later id
C8_Witness ==
    \E x, b \in voevent :
        /\ PacketOf(x) = Xrt /\ PacketOf(b) = Bat
        /\ x.id < b.id
        /\ \E c \in cite : c.voevent_id = Some(x.id) /\ c.ref_ivorn = BatIvorn

\* a step that deletes a stored row through the session
Deletes == \E id \in 1..MaxRows : Delete(id)

\* a step that is no deletion keeps every stored row and its citations, and
\* a request that is not a GET is answered 405
C9_StepOk ==
    /\ Deletes \/ \A r \in voevent :
                      /\ r \in voevent'
                      /\ CitesOf(cite', r.id) = CitesOf(cite, r.id)
    /\ \A method \in HttpMethods \ {"GET"}, id \in 1..MaxRows :
           Api(method, id) => response'.status = 405
    /\ response'.status \in {0, 200, 404, 405}

\* C9: but for a deletion through the session, no step (an insert that
\* succeeds or fails, an API request) changes a stored Event Record or its
\* citations, and the API answers every method but GET with 405
C9_AppendOnly == [][C9_StepOk]_vars

\* a record is stored, an insert of its identifier was refused, and the API
\* refused a request that was not a GET
C9_Witness ==
    /\ response.status = 405
    /\ \E p \in Procs :
           /\ session[p].pc = "done"
           /\ session[p].out.err = "DuplicateIdentifier"
           /\ \E r \in voevent : r.ivorn = Some(session[p].root[1].attrib.ivorn)
                                 /\ PacketOf(r) # session[p].root[1]

\* C6: a call without a received argument gives the record the clock's value
\* at that call
C6_ReceivedIsCallTime ==
    [][\A p \in Procs :
           (session[p].pc = "idle" /\ session'[p].pc = "pending"
                                   /\ session'[p].arg = NotGiven) =>
               session'[p].row[1].received = Some(Localize(clock))]_vars

\* the identifier has a '#'
HasHash(ivorn) == \E k \in 1..Len(ivorn) : ivorn[k] = Hash
\* the identifier starts with 'ivo://' and has a '#'
WellFormed(ivorn) ==
    /\ Len(ivorn) >= Len(IvoPrefix)
    /\ \A k \in 1..Len(IvoPrefix) : ivorn[k] = IvoPrefix[k]
    /\ HasHash(ivorn)
\* the place of the first '#'
FirstHash(ivorn) ==
    CHOOSE k \in 1..Len(ivorn) :
        ivorn[k] = Hash /\ \A j \in 1..(k - 1) : ivorn[j] # Hash
\* the characters after the 6-character prefix and before the first '#'
Between(ivorn) ==
    [j \in 1..(FirstHash(ivorn) - 1 - Len(IvoPrefix)) |->
        ivorn[j + Len(IvoPrefix)]]
\* the characters after the first 6
AfterSix(ivorn) ==
    [j \in 1..(IF Len(ivorn) > 6 THEN Len(ivorn) - 6 ELSE 0) |-> ivorn[j + 6]]

\* Store.getByIdentifier: the stored records with this identifier
GetByIdentifier(ivorn) == {r \in voevent : r.ivorn = Some(ivorn)}

\* the instant GoodDate names
GoodInstant == [date |-> <<2020, 1, 1>>, time |-> <<12, 0, 0>>, tz |-> "UTC"]

\* C3: after extract and a successful insert of a packet, getByIdentifier
\* returns one record, with the packet's identifier, role, version and author
\* fields; the stream of every stored record with a well-formed identifier is
\* the part of the identifier after 'ivo://' and before the first '#'
C3_RoundTrip ==
    /\ \A r \in voevent :
           WellFormed(r.ivorn[1]) => r.stream = Some(Between(r.ivorn[1]))
    /\ \A p \in Procs :
           (session[p].pc = "done" /\ session[p].out.op = "insert"
                                   /\ session[p].out.err = "") =>
               LET root == session[p].root[1]
                   got == GetByIdentifier(root.attrib.ivorn)
               IN  /\ Cardinality(got) = 1
                   /\ \A r \in got :
                          /\ r.id = session[p].out.id
                          /\ r.ivorn = Some(root.attrib.ivorn)
                          /\ r.role = Some(root.attrib.role)
                          /\ r.version = Some(root.attrib.version)
                          /\ r.author_ivorn = root.Who.AuthorIVORN
                          /\ r.author_datetime =
                                 IF root.Who.Date = None THEN None
                                 ELSE Some(GoodInstant)

\* the packet 'ivo://a#' was inserted and is returned with the stream 'a'
C3_Witness ==
    /\ session[1].pc = "done" /\ session[1].out.err = ""
    /\ session[1].out.op = "insert"
    /\ session[1].root[1].attrib.ivorn = IvoPrefix \o <<"a", Hash>>
    /\ \E r \in voevent : r.stream = Some(<<"a">>)

\* the extracted citations are the entries with text, in order, and the
\* stored ones are as many and none has an empty ref_ivorn
C4_State ==
    /\ \A p \in Procs :
           session[p].pc = "pending" =>
               LET es == EntriesWithText(session[p].root[1])
                   cs == session[p].row[1].cites
               IN  /\ Len(cs) = Len(es)
                   /\ \A i \in 1..Len(es) :
                          /\ cs[i].ref_ivorn = es[i].text
                          /\ cs[i].cite_type = es[i].attrib.cite
                          /\ cs[i].description =
                                 session[p].root[1].Citations[1].Description
    /\ \A c \in cite : c.ref_ivorn # <<>>
    /\ \A r \in voevent :
           Cardinality(CitesOf(cite, r.id)) = Len(EntriesWithText(PacketOf(r)))
\* the insert of a packet without Citations, with a role of the enum and an
\* identifier that is not stored, succeeds and stores no citation
C4_StepOk ==
    \A p \in Procs :
        (Ends(p) /\ session'[p].out.op = "insert"
                 /\ session[p].root[1].Citations = None
                 /\ session[p].root[1].attrib.role \in Roles
                 /\ GetByIdentifier(session[p].root[1].attrib.ivorn) = {}) =>
            /\ session'[p].out.err = ""
            /\ CitesOf(cite', session'[p].out.id) = {}

\* C4: extract gives one citation per EventIVORN entry with text, in document
\* order, with the block's description, and none for an entry without text;
\* no stored citation has an empty ref_identifier and an event's stored
\* citations are as many as its entries with text; a packet without
\* Citations yields no citation and its insert succeeds
C4_Citations == []C4_State /\ [][C4_StepOk]_vars

\* a packet with an entry without text before an entry with text is stored
\* with the one citation
C4_Witness ==
    \E r \in voevent :
        /\ PacketOf(r).Citations # None
        /\ Len(PacketOf(r).Citations[1].EventIVORN) = 2
        /\ PacketOf(r).Citations[1].EventIVORN[1].text = <<>>
        /\ Cardinality(CitesOf(cite, r.id)) = 1

\* C7 as stated: extract returns no record for a packet whose role is absent
\* or not enumerated
C7_ExtractRefusesRole ==
    \A p \in Procs :
        session[p].pc = "pending" =>
            /\ "role" \in DOMAIN session[p].root[1].attrib
            /\ session[p].root[1].attrib.role \in Roles

\* no stored role is missing or outside the enum; a packet without role ends
\* in extract with KeyError; a packet with a role outside the enum is
\* extracted, never written, and ends in the insert with ConstraintViolation
C7_State ==
    /\ \A r \in voevent : r.role # None /\ r.role[1] \in Roles
    /\ \A p \in Procs :
           session[p].root # None =>
               LET attrib == session[p].root[1].attrib IN
               /\ "role" \notin DOMAIN attrib =>
                      /\ session[p].pc = "done"
                      /\ session[p].out.op = "extract"
                      /\ session[p].out.err = "KeyError"
               /\ ("role" \in DOMAIN attrib /\ attrib.role \notin Roles) =>
                      /\ session[p].pc \in {"pending", "done"}
                      /\ session[p].pc = "done" =>
                             /\ session[p].out.op = "insert"
                             /\ session[p].out.err = "ConstraintViolation"
\* the call for a packet whose role is absent or outside the enum ends with
\* the store and the id sequence as they were
C7_StepOk ==
    \A p \in Procs :
        (Ends(p) /\ ("role" \notin DOMAIN session'[p].root[1].attrib
                     \/ session'[p].root[1].attrib.role \notin Roles)) =>
            /\ voevent' = voevent /\ cite' = cite
            /\ voevent_id_seq' = voevent_id_seq

\* C7 as amended: a packet without role is refused by extract, before any
\* store call; a packet with a role that is not enumerated is extracted and
\* then refused by the insert, before anything of it is written; the store
\* is unchanged in both cases and no stored record has a missing or
\* non-enumerated role
C7_RoleRefused == []C7_State /\ [][C7_StepOk]_vars

\* a packet with a role outside the enum was extracted and its insert was
\* refused, with a record in the store
C7_Witness ==
    /\ session[1].pc = "done"
    /\ "role" \in DOMAIN session[1].root[1].attrib
    /\ session[1].root[1].attrib.role = "alert"
    /\ session[1].out.op = "insert"
    /\ session[1].out.err = "ConstraintViolation"
    /\ voevent # {}

\* C10 as stated: extract returns no record for an identifier without '#'
C10_NoHashRaises ==
    \A p \in Procs :
        session[p].pc = "pending" =>
            HasHash(session[p].root[1].attrib.ivorn)

\* the packet has its attributes, a date that parses and the cite attribute
\* on its entries with text
Extractable(root) ==
    /\ {"ivorn", "role", "version"} \subseteq DOMAIN root.attrib
    /\ root.Who.Date \in {None, Some(GoodDate)}
    /\ \A i \in 1..Len(EntriesWithText(root)) :
           "cite" \in DOMAIN EntriesWithText(root)[i].attrib

\* C10 as amended: for an identifier without '#' extract raises nothing and
\* returns a record whose stream is the identifier after its first 6
\* characters, and so is the stream of the stored record
C10_NoHashState ==
    /\ \A p \in Procs :
           (session[p].root # None /\ Extractable(session[p].root[1])
            /\ ~HasHash(session[p].root[1].attrib.ivorn)) =>
               /\ session[p].out.op = "extract" => session[p].out.err = ""
               /\ session[p].pc = "pending" =>
                      session[p].row[1].stream =
                          Some(AfterSix(session[p].root[1].attrib.ivorn))
    /\ \A r \in voevent :
           ~HasHash(r.ivorn[1]) => r.stream = Some(AfterSix(r.ivorn[1]))

\* a record is stored for 'ivo://aa', with stream 'aa'
C10_Witness ==
    \E r \in voevent :
        /\ r.ivorn = Some(IvoPrefix \o <<"a", "a">>)
        /\ r.stream = Some(<<"a", "a">>)
        /\ session[1].pc = "done" /\ session[1].out.err = ""

====
